---- MODULE Spec2Model ----
(***************************************************************************)
(* Model of tangut_translator.py: the dictionary build (load_tangut_data), *)
(* the four translate_* functions and the menu loop of main.               *)
(*                                                                         *)
(* A string is a sequence of Unicode code points (Python str semantics: a  *)
(* str is indexed by code point).  A dict is a function whose DOMAIN is    *)
(* the set of its keys.  A value that may be None is a sequence of length  *)
(* at most one: <<>> is None and <<v>> is the value v.                     *)
(***************************************************************************)
EXTENDS Integers, Sequences, FiniteSets, TLC

VARIABLES
    pc,                     \* position in load_tangut_data / main
    li_fanwen_data,         \* None or the list of atomic records
    li_pos,                 \* index of the next atomic record
    compound_data,          \* None or the list of compound records
    compound_pos,           \* index of the next compound record
    tangut_char_data,       \* char -> [phonetics, meanings]
    english_to_tangut,      \* normalized phrase/word -> list of entries
    tangut_to_chinese,      \* char -> chinese string
    chinese_to_tangut,      \* chinese string -> list of chars
    tangut_char_data_dict,  \* main's copy of the returned tuple
    english_to_tangut_dict,
    tangut_to_chinese_dict,
    chinese_to_tangut_dict,
    output                  \* result of the last translate_* call

vars == <<pc, li_fanwen_data, li_pos, compound_data, compound_pos,
          tangut_char_data, english_to_tangut, tangut_to_chinese,
          chinese_to_tangut, tangut_char_data_dict, english_to_tangut_dict,
          tangut_to_chinese_dict, chinese_to_tangut_dict, output>>

-----------------------------------------------------------------------------
(* Bounds of the model *)

MaxAtomic == 2
MaxCompound == 1

-----------------------------------------------------------------------------
(* Code points and string literals *)

Chr == [sp |-> 32, bang |-> 33, lpar |-> 40, rpar |-> 41, qm |-> 63,
        A |-> 65, B |-> 66, a |-> 97, b |-> 98, c |-> 99, i |-> 105,
        Idot |-> 304, dotabove |-> 775, zh |-> 20013,
        X |-> 94208, Y |-> 94209, Z |-> 94210]

TANGUT_FIRST == 94208
TANGUT_LAST == 100351

\* "<?MISSING_PHONETICS?>"
MISSING_PHONETICS ==
    <<60, 63, 77, 73, 83, 83, 73, 78, 71, 95, 80, 72, 79, 78, 69, 84, 73,
      67, 83, 63, 62>>

\* "<?N/A_COMPOUND_PHONETICS?>"
NA_COMPOUND_PHONETICS ==
    <<60, 63, 78, 47, 65, 95, 67, 79, 77, 80, 79, 85, 78, 68, 95, 80, 72,
      79, 78, 69, 84, 73, 67, 83, 63, 62>>

\* "<?>"
UNKNOWN == <<60, 63, 62>>

\* "<?ph?>"
UNKNOWN_PH == <<60, 63, 112, 104, 63, 62>>

\* "?"
PLACEHOLDER == <<63>>

None == <<>>
Some(v) == <<v>>

-----------------------------------------------------------------------------
(* Character classes and string functions *)

IsTangut(ch) == ch >= TANGUT_FIRST /\ ch <= TANGUT_LAST

\* \s of the re module, on the modelled alphabet
IsSpace(ch) == ch \in {9, 10, 11, 12, 13, 32}

\* \w of the re module (str patterns): alphanumerics and the underscore.
\* U+0307 COMBINING DOT ABOVE (775) is a mark, not a word character.
IsWordChar(ch) ==
    \/ ch \in 48..57
    \/ ch \in 65..90
    \/ ch = 95
    \/ ch \in 97..122
    \/ ch = 304
    \/ ch \in 19968..40959
    \/ IsTangut(ch)

\* str.lower() of one character: U+0130 lowers to U+0069 U+0307
LowerOf(ch) ==
    IF ch \in 65..90 THEN <<ch + 32>>
    ELSE IF ch = 304 THEN <<105, 775>>
    ELSE <<ch>>

SetMin(S) == CHOOSE x \in S : \A y \in S : x <= y
SetMax(S) == CHOOSE x \in S : \A y \in S : x >= y

\* str.strip()
Strip(s) ==
    LET keep == {k \in 1..Len(s) : ~IsSpace(s[k])}
    IN  IF keep = {} THEN <<>> ELSE SubSeq(s, SetMin(keep), SetMax(keep))

RemoveNonWord(s) == SelectSeq(s, LAMBDA ch : IsWordChar(ch) \/ IsSpace(ch))

RECURSIVE ToLower(_)
ToLower(s) == IF s = <<>> THEN <<>> ELSE LowerOf(Head(s)) \o ToLower(Tail(s))

\* re.sub(r'[^\w\s]', '', s).lower()
Normalize(s) == ToLower(RemoveNonWord(s))

\* length of the longest prefix of s that holds none of the positions stops
PrefixLen(s, stops) == IF stops = {} THEN Len(s) ELSE SetMin(stops) - 1

\* str.split(): the maximal runs of non-whitespace
RECURSIVE Split(_)
Split(s) ==
    LET lead == PrefixLen(s, {k \in 1..Len(s) : ~IsSpace(s[k])})
        t == SubSeq(s, lead + 1, Len(s))
        n == PrefixLen(t, {k \in 1..Len(t) : IsSpace(t[k])})
    IN  IF t = <<>> THEN <<>>
        ELSE <<SubSeq(t, 1, n)>> \o Split(SubSeq(t, n + 1, Len(t)))

\* Python's order on str: lexicographic by code point
RECURSIVE StrLess(_, _)
StrLess(s, t) ==
    IF t = <<>> THEN FALSE
    ELSE IF s = <<>> THEN TRUE
    ELSE IF Head(s) # Head(t) THEN Head(s) < Head(t)
    ELSE StrLess(Tail(s), Tail(t))

Contains(seq, x) == \E k \in 1..Len(seq) : seq[k] = x

\* d.setdefault(key, []).append(x)
SetDefaultAppend(d, key, x) ==
    IF key \in DOMAIN d THEN [d EXCEPT ![key] = Append(@, x)]
    ELSE d @@ (key :> <<x>>)

\* d[key] = v
Put(d, key, v) ==
    IF key \in DOMAIN d THEN [d EXCEPT ![key] = v] ELSE d @@ (key :> v)

EmptyDict == <<>>

\* sorted(seq, key=...): stable, ascending; less is the set of the pairs of
\* positions <<j, k>> with the key of seq[j] below the key of seq[k]
SortStable(seq, less) ==
    LET n == Len(seq)
        Before(j, k) ==
            <<j, k>> \in less \/ (<<k, j>> \notin less /\ j < k)
        Rank(k) == Cardinality({j \in 1..n : Before(j, k)}) + 1
    IN  [p \in 1..n |-> seq[CHOOSE k \in 1..n : Rank(k) = p]]

\* the elements of seq, each kept at its first occurrence only
RECURSIVE UniqueInOrder(_, _)
UniqueInOrder(seq, seen) ==
    IF seq = <<>> THEN <<>>
    ELSE IF Head(seq) \in seen THEN UniqueInOrder(Tail(seq), seen)
    ELSE <<Head(seq)>> \o UniqueInOrder(Tail(seq), seen \cup {Head(seq)})

\* all sequences over S of length at most n
SeqsUpTo(S, n) == UNION {[1..k -> S] : k \in 0..n}

-----------------------------------------------------------------------------
(* The inputs: records of the two source files, and texts typed at the menu *)

AtomicRecord(char, meaning, keyword, phonetics, chinese) ==
    [Character |-> char, Meaning |-> meaning, Keyword |-> keyword,
     Phonetics |-> phonetics, Chinese_Character |-> chinese]

CompoundRecord(concept, proposed, literal) ==
    [Modern_Concept |-> concept, Proposed_Tangut_Word |-> proposed,
     Literal_Tangut_Meaning |-> literal]

AtomicRecords ==
    { AtomicRecord(<<Chr.X>>, <<Chr.a>>, <<Chr.a>>, <<>>, <<Chr.zh>>),
      AtomicRecord(<<Chr.X>>, <<Chr.b>>, <<Chr.qm>>, <<Chr.b>>, <<>>),
      AtomicRecord(<<Chr.X>>, <<Chr.a, Chr.sp, Chr.b>>, <<>>, <<Chr.a>>,
                   <<Chr.zh>>),
      AtomicRecord(<<Chr.Y>>, <<Chr.A, Chr.bang>>, <<Chr.b>>, <<Chr.a>>,
                   <<Chr.zh>>),
      AtomicRecord(<<Chr.X, Chr.Y>>, <<Chr.b>>, <<>>, <<Chr.b>>, <<>>),
      AtomicRecord(<<Chr.sp>>, <<Chr.a>>, <<Chr.a>>, <<Chr.a>>, <<Chr.zh>>),
      AtomicRecord(<<Chr.Y>>, <<Chr.Idot>>, <<>>, <<Chr.sp>>, <<>>) }

CompoundRecords ==
    { CompoundRecord(<<Chr.a, Chr.sp, Chr.lpar, Chr.zh, Chr.rpar>>,
                     <<Chr.X, Chr.Y, Chr.sp, Chr.lpar, Chr.b, Chr.rpar>>,
                     <<Chr.a, Chr.sp, Chr.b>>),
      CompoundRecord(<<>>,
                     <<Chr.X, Chr.sp, Chr.lpar, Chr.sp, Chr.rpar>>,
                     <<Chr.a>>),
      CompoundRecord(<<Chr.zh, Chr.sp, Chr.lpar, Chr.a, Chr.rpar>>,
                     <<Chr.X>>,
                     <<Chr.qm>>),
      CompoundRecord(<<Chr.lpar, Chr.a, Chr.rpar>>,
                     <<Chr.a, Chr.b>>,
                     <<>>),
      CompoundRecord(<<Chr.a>>, <<>>, <<Chr.a>>),
      CompoundRecord(<<Chr.b>>,
                     <<Chr.X, Chr.sp, Chr.lpar, Chr.a, Chr.rpar>>,
                     <<Chr.b>>),
      CompoundRecord(<<Chr.zh, Chr.a>>, <<Chr.Y>>, <<>>) }

TangutTexts == { <<Chr.X>>, <<Chr.X, Chr.Y>>, <<Chr.Z, Chr.X>> }

EnglishTexts ==
    { <<Chr.a>>, <<Chr.B, Chr.bang, Chr.sp, Chr.a>>, <<Chr.c, Chr.sp, Chr.b>>,
      <<Chr.Idot>> }

ChineseTexts == { <<Chr.zh>>, <<Chr.a, Chr.zh>> }

-----------------------------------------------------------------------------
(* load_tangut_data: the atomic records *)

\* add_to_english_map
AddToEnglishMap(e2t, key_phrase, tangut_char, phonetics_info, original) ==
    LET normalized_key_phrase == Normalize(key_phrase)
        entry == [char |-> tangut_char, phonetics |-> phonetics_info,
                  original_meaning |-> original]
        words == Split(normalized_key_phrase)
        AddWords[k \in 0..Len(words)] ==
            IF k = 0
            THEN SetDefaultAppend(e2t, normalized_key_phrase, entry)
            ELSE SetDefaultAppend(AddWords[k - 1], words[k], entry)
    IN  IF key_phrase = <<>> THEN e2t
        ELSE IF normalized_key_phrase = <<>> THEN e2t
        ELSE AddWords[Len(words)]

AtomicFields(entry) ==
    [char |-> Strip(entry.Character),
     meaning_phrase |-> Strip(entry.Meaning),
     keyword_phrase |-> Strip(entry.Keyword),
     phonetics |-> Strip(entry.Phonetics),
     chinese_char |-> Strip(entry.Chinese_Character)]

PhoneticsToStore(phonetics) ==
    IF phonetics = <<>> THEN MISSING_PHONETICS ELSE phonetics

\* a phrase that is neither empty nor the placeholder '?'
Usable(phrase) == phrase # <<>> /\ phrase # PLACEHOLDER

UpsertPhoneticsNoUpgrade(tcd, char, phonetics_to_store) ==
    IF char \notin DOMAIN tcd
    THEN Put(tcd, char, [phonetics |-> phonetics_to_store, meanings |-> <<>>])
    ELSE tcd

UpsertPhoneticsLastWins(tcd, char, phonetics_to_store) ==
    IF char \notin DOMAIN tcd
    THEN Put(tcd, char, [phonetics |-> phonetics_to_store, meanings |-> <<>>])
    ELSE IF phonetics_to_store # MISSING_PHONETICS
    THEN [tcd EXCEPT ![char].phonetics = phonetics_to_store]
    ELSE tcd

UpsertPhonetics(tcd, char, phonetics_to_store) ==
    IF char \notin DOMAIN tcd
    THEN Put(tcd, char, [phonetics |-> phonetics_to_store, meanings |-> <<>>])
    ELSE IF tcd[char].phonetics = MISSING_PHONETICS
            /\ phonetics_to_store # MISSING_PHONETICS
    THEN [tcd EXCEPT ![char].phonetics = phonetics_to_store]
    ELSE tcd

AppendMeaning(tcd, char, phrase) ==
    IF Usable(phrase) /\ ~Contains(tcd[char].meanings, phrase)
    THEN [tcd EXCEPT ![char].meanings = Append(@, phrase)]
    ELSE tcd

CharDataAfterAtomic(tcd, entry) ==
    LET f == AtomicFields(entry)
        d1 == UpsertPhonetics(tcd, f.char, PhoneticsToStore(f.phonetics))
        d2 == AppendMeaning(d1, f.char, f.meaning_phrase)
    IN  AppendMeaning(d2, f.char, f.keyword_phrase)

EnglishAfterAtomic(e2t, entry) ==
    LET f == AtomicFields(entry)
        p == PhoneticsToStore(f.phonetics)
        e1 == IF Usable(f.meaning_phrase)
              THEN AddToEnglishMap(e2t, f.meaning_phrase, f.char, p,
                                   f.meaning_phrase)
              ELSE e2t
    IN  IF Usable(f.keyword_phrase)
        THEN AddToEnglishMap(e1, f.keyword_phrase, f.char, p,
                             IF f.meaning_phrase # <<>>
                             THEN f.meaning_phrase ELSE f.keyword_phrase)
        ELSE e1

TangutToChineseAfterAtomic(t2c, entry) ==
    LET f == AtomicFields(entry)
    IN  IF f.chinese_char # <<>> /\ f.char # <<>>
        THEN Put(t2c, f.char, f.chinese_char) ELSE t2c

ChineseToTangutAfterAtomic(c2t, entry) ==
    LET f == AtomicFields(entry)
    IN  IF f.chinese_char # <<>> /\ f.char # <<>>
        THEN SetDefaultAppend(c2t, f.chinese_char, f.char) ELSE c2t
-----------------------------------------------------------------------------
(* load_tangut_data: the compound records *)

CompoundFields(entry) ==
    [modern_concept |-> Strip(entry.Modern_Concept),
     proposed_tangut_word_raw |-> Strip(entry.Proposed_Tangut_Word),
     literal_tangut_meaning |-> Strip(entry.Literal_Tangut_Meaning)]

\* group 2 of re.match(rf"({TANGUT_CHAR_REGEX})(?: \(([^)]+)\))?", raw),
\* given the text after group 1: None, or the text between " (" and the
\* first ")" when that text is not empty
PhoneticGroup(rest) ==
    LET close == {k \in 3..Len(rest) : rest[k] = Chr.rpar}
    IN  IF /\ Len(rest) >= 4
           /\ rest[1] = Chr.sp
           /\ rest[2] = Chr.lpar
           /\ close # {}
           /\ SetMin(close) >= 4
        THEN Some(SubSeq(rest, 3, SetMin(close) - 1))
        ELSE None

\* match.group(2).strip() if match.group(2) else "<?N/A_COMPOUND_PHONETICS?>"
CompoundPhonetics(group) ==
    IF group # None THEN Strip(group[1]) ELSE NA_COMPOUND_PHONETICS

\* tangut_char_for_map and phonetics_for_map
ParseProposed(raw) ==
    LET n == PrefixLen(raw, {k \in 1..Len(raw) : ~IsTangut(raw[k])})
    IN  IF n > 0
        THEN [char |-> Strip(SubSeq(raw, 1, n)),
              phonetics |->
                  CompoundPhonetics(PhoneticGroup(SubSeq(raw, n + 1, Len(raw))))]
        ELSE [char |-> raw, phonetics |-> NA_COMPOUND_PHONETICS]

\* a character of the CJK Unified Ideographs block
IsCrossScript(ch) == ch \in 19968..40959

\* The extraction with the parenthesized group taken first: the contents of
\* the first parenthesized group; without one, the whole field when it has no
\* leading run of cross-script characters, and otherwise what follows that
\* run, unless that begins with a cross-script character again.
EnglishPartParenthesizedFirst(modern_concept) ==
    LET n == Len(modern_concept)
        groups == {k \in 1..n :
                      /\ modern_concept[k] = Chr.lpar
                      /\ \E j \in (k + 2)..n :
                             /\ modern_concept[j] = Chr.rpar
                             /\ \A m \in (k + 1)..(j - 1) :
                                    modern_concept[m] # Chr.rpar}
        open == SetMin(groups)
        close == SetMin({j \in (open + 2)..n : modern_concept[j] = Chr.rpar})
        run == PrefixLen(modern_concept,
                         {k \in 1..n : ~IsCrossScript(modern_concept[k])})
        rest == Strip(SubSeq(modern_concept, run + 1, n))
    IN  IF groups # {} THEN Strip(SubSeq(modern_concept, open + 1, close - 1))
        ELSE IF run = 0 THEN modern_concept
        ELSE IF rest # <<>> /\ IsCrossScript(rest[1]) THEN <<>>
        ELSE rest

\* english_part: group 1 of re.match(r"([^()]+)(?: \([^)]+\))?", modern_concept)
EnglishPart(modern_concept) ==
    LET n == PrefixLen(modern_concept,
                       {k \in 1..Len(modern_concept) :
                            modern_concept[k] \in {Chr.lpar, Chr.rpar}})
    IN  IF n > 0 THEN Strip(SubSeq(modern_concept, 1, n)) ELSE modern_concept

EnglishAfterCompound(e2t, entry) ==
    LET f == CompoundFields(entry)
        w == ParseProposed(f.proposed_tangut_word_raw)
        e1 == IF f.modern_concept # <<>>
              THEN AddToEnglishMap(e2t, EnglishPart(f.modern_concept), w.char,
                                   w.phonetics, f.literal_tangut_meaning)
              ELSE e2t
    IN  IF Usable(f.literal_tangut_meaning)
        THEN AddToEnglishMap(e1, f.literal_tangut_meaning, w.char,
                             w.phonetics, f.literal_tangut_meaning)
        ELSE e1

CharDataAfterCompoundOverwrite(tcd, entry) ==
    LET f == CompoundFields(entry)
        w == ParseProposed(f.proposed_tangut_word_raw)
    IN  Put(tcd, w.char,
            [phonetics |-> w.phonetics,
             meanings |-> IF Usable(f.literal_tangut_meaning)
                          THEN <<f.literal_tangut_meaning>> ELSE <<>>])

\* the compound pass writes nothing to tangut_char_data
CharDataAfterCompound(tcd, entry) == tcd

\* the leading run of cross-script characters of a modern-concept field
CrossScriptPart(modern_concept) ==
    SubSeq(modern_concept, 1,
           PrefixLen(modern_concept,
                     {k \in 1..Len(modern_concept) :
                          ~IsCrossScript(modern_concept[k])}))

TangutToChineseAfterCompoundWritten(t2c, entry) ==
    LET f == CompoundFields(entry)
        w == ParseProposed(f.proposed_tangut_word_raw)
        c == CrossScriptPart(f.modern_concept)
    IN  IF c # <<>> THEN Put(t2c, w.char, c) ELSE t2c

\* the compound pass writes nothing to tangut_to_chinese
TangutToChineseAfterCompound(t2c, entry) == t2c

\* the compound pass writes nothing to chinese_to_tangut
ChineseToTangutAfterCompound(c2t, entry) == c2t

-----------------------------------------------------------------------------
(* load_tangut_data: deduplication and the returned tuple *)

UniqueEntriesKeepAll(entries) == entries

\* unique_entries_for_key
UniqueEntries(entries) == UniqueInOrder(entries, {})

DedupEnglish(e2t) == [key \in DOMAIN e2t |-> UniqueEntries(e2t[key])]

SeqToSet(seq) == {seq[k] : k \in 1..Len(seq)}

\* sorted(list(set(chars)))
SortedUnique(chars) ==
    LET u == UniqueInOrder(chars, {})
    IN  SortStable(u, {q \in (1..Len(u)) \X (1..Len(u)) : StrLess(u[q[1]], u[q[2]])})

DedupChinese(c2t) == [key \in DOMAIN c2t |-> SortedUnique(c2t[key])]

LoadFailedAtomicOnly(li, compound) == li = None

\* li_fanwen_data is None or compound_data is None
LoadFailed(li, compound) == li = None \/ compound = None

Returned(d) == IF LoadFailed(li_fanwen_data, compound_data) THEN None ELSE Some(d)

\* Python truth value of an optional dict or list
Truthy(opt) == opt # None /\ DOMAIN opt[1] # {}

-----------------------------------------------------------------------------
(* The state machine of the build *)

NoOutput == [direction |-> "none"]

Init ==
    /\ pc = "load_li_fanwen"
    /\ li_fanwen_data = None
    /\ li_pos = 1
    /\ compound_data = None
    /\ compound_pos = 1
    /\ tangut_char_data = EmptyDict
    /\ english_to_tangut = EmptyDict
    /\ tangut_to_chinese = EmptyDict
    /\ chinese_to_tangut = EmptyDict
    /\ tangut_char_data_dict = None
    /\ english_to_tangut_dict = None
    /\ tangut_to_chinese_dict = None
    /\ chinese_to_tangut_dict = None
    /\ output = NoOutput

mainVars == <<tangut_char_data_dict, english_to_tangut_dict,
              tangut_to_chinese_dict, chinese_to_tangut_dict, output>>

indexVars == <<tangut_char_data, english_to_tangut, tangut_to_chinese,
               chinese_to_tangut>>

\* li_fanwen_data = load_json_data(lifanwen_file_path); if li_fanwen_data:
LoadLiFanwen ==
    /\ pc = "load_li_fanwen"
    /\ \E data \in {None} \cup {Some(l) : l \in SeqsUpTo(AtomicRecords, MaxAtomic)} :
        /\ li_fanwen_data' = data
        /\ pc' = IF Truthy(data) THEN "li_fanwen_loop" ELSE "load_compound"
    /\ li_pos' = 1
    /\ UNCHANGED <<compound_data, compound_pos, indexVars, mainVars>>

\* one iteration of: for entry in li_fanwen_data
LiFanwenEntry ==
    /\ pc = "li_fanwen_loop"
    /\ LET entry == li_fanwen_data[1][li_pos]
       IN  IF AtomicFields(entry).char = <<>>
           THEN UNCHANGED indexVars
           ELSE /\ tangut_char_data' = CharDataAfterAtomic(tangut_char_data, entry)
                /\ english_to_tangut' = EnglishAfterAtomic(english_to_tangut, entry)
                /\ tangut_to_chinese' =
                       TangutToChineseAfterAtomic(tangut_to_chinese, entry)
                /\ chinese_to_tangut' =
                       ChineseToTangutAfterAtomic(chinese_to_tangut, entry)
    /\ li_pos' = li_pos + 1
    /\ pc' = IF li_pos = Len(li_fanwen_data[1])
             THEN "load_compound" ELSE "li_fanwen_loop"
    /\ UNCHANGED <<li_fanwen_data, compound_data, compound_pos, mainVars>>

\* compound_data = load_json_data(compound_file_path); if compound_data:
LoadCompound ==
    /\ pc = "load_compound"
    /\ \E data \in {None} \cup {Some(l) : l \in SeqsUpTo(CompoundRecords, MaxCompound)} :
        /\ compound_data' = data
        /\ pc' = IF Truthy(data) THEN "compound_loop" ELSE "deduplicate"
    /\ compound_pos' = 1
    /\ UNCHANGED <<li_fanwen_data, li_pos, indexVars, mainVars>>

\* one iteration of: for entry in compound_data
CompoundEntry ==
    /\ pc = "compound_loop"
    /\ LET entry == compound_data[1][compound_pos]
       IN  IF CompoundFields(entry).proposed_tangut_word_raw = <<>>
           THEN UNCHANGED indexVars
           ELSE /\ tangut_char_data' = CharDataAfterCompound(tangut_char_data, entry)
                /\ english_to_tangut' = EnglishAfterCompound(english_to_tangut, entry)
                /\ tangut_to_chinese' =
                       TangutToChineseAfterCompound(tangut_to_chinese, entry)
                /\ chinese_to_tangut' =
                       ChineseToTangutAfterCompound(chinese_to_tangut, entry)
    /\ compound_pos' = compound_pos + 1
    /\ pc' = IF compound_pos = Len(compound_data[1])
             THEN "deduplicate" ELSE "compound_loop"
    /\ UNCHANGED <<li_fanwen_data, li_pos, compound_data, mainVars>>

\* the two deduplication loops
Deduplicate ==
    /\ pc = "deduplicate"
    /\ english_to_tangut' = DedupEnglish(english_to_tangut)
    /\ chinese_to_tangut' = DedupChinese(chinese_to_tangut)
    /\ pc' = "return"
    /\ UNCHANGED <<li_fanwen_data, li_pos, compound_data, compound_pos,
                   tangut_char_data, tangut_to_chinese, mainVars>>

\* the return of load_tangut_data, unpacked by main
ReturnIndexes ==
    /\ pc = "return"
    /\ tangut_char_data_dict' = Returned(tangut_char_data)
    /\ english_to_tangut_dict' = Returned(english_to_tangut)
    /\ tangut_to_chinese_dict' = Returned(tangut_to_chinese)
    /\ chinese_to_tangut_dict' = Returned(chinese_to_tangut)
    /\ pc' = "main_check"
    /\ UNCHANGED <<li_fanwen_data, li_pos, compound_data, compound_pos,
                   indexVars, output>>

\* if tangut_char_data_dict is None: return
MainCheck ==
    /\ pc = "main_check"
    /\ pc' = IF tangut_char_data_dict = None THEN "exit" ELSE "menu"
    /\ UNCHANGED <<li_fanwen_data, li_pos, compound_data, compound_pos,
                   indexVars, mainVars>>

-----------------------------------------------------------------------------
(* The translate_* functions *)

Unavailable(direction, text) ==
    [direction |-> direction, text |-> text, available |-> FALSE,
     detailed_results |-> <<>>, combined_chars |-> <<>>,
     combined_phonetics |-> <<>>, combined_meanings |-> {}]

SegmentLongestMatch(text, d) ==
    LET RECURSIVE From(_)
        From(k) ==
            IF k > Len(text) THEN <<>>
            ELSE LET hits == {n \in 1..(Len(text) - k + 1) :
                                 SubSeq(text, k, k + n - 1) \in DOMAIN d}
                     n == IF hits = {} THEN 1 ELSE SetMax(hits)
                 IN  <<SubSeq(text, k, k + n - 1)>> \o From(k + n)
    IN  From(1)

\* for char in text: one span per character, whatever the keys of d
Segment(text, d) == [k \in 1..Len(text) |-> <<text[k]>>]

\* translate_tangut_to_english
TangutToEnglish(tangut_text, t_data_dict) ==
    IF ~Truthy(t_data_dict) THEN Unavailable("tangut_to_english", tangut_text)
    ELSE
    LET d == t_data_dict[1]
        spans == Segment(tangut_text, d)
        Known(k) == spans[k] \in DOMAIN d
    IN  [direction |-> "tangut_to_english",
         text |-> tangut_text,
         available |-> TRUE,
         detailed_results |->
             [k \in 1..Len(spans) |->
                 IF Known(k)
                 THEN [span |-> spans[k], matched |-> TRUE,
                       phonetics |-> d[spans[k]].phonetics,
                       meanings |-> d[spans[k]].meanings]
                 ELSE [span |-> spans[k], matched |-> FALSE,
                       phonetics |-> UNKNOWN, meanings |-> <<>>]],
         combined_chars |-> <<>>,
         combined_phonetics |->
             [k \in 1..Len(spans) |->
                 IF Known(k) THEN d[spans[k]].phonetics ELSE UNKNOWN],
         combined_meanings |->
             UNION {SeqToSet(d[spans[k]].meanings) :
                        k \in {j \in 1..Len(spans) : Known(j)}}]

MatchLessCharOnly(x, y) == StrLess(x.char, y.char)

\* the order of key=lambda x: (x['char'], x['phonetics'])
MatchLess(x, y) ==
    \/ StrLess(x.char, y.char)
    \/ x.char = y.char /\ StrLess(x.phonetics, y.phonetics)

SortedMatches(matches) ==
    SortStable(matches,
               {q \in (1..Len(matches)) \X (1..Len(matches)) :
                    MatchLess(matches[q[1]], matches[q[2]])})

\* translate_english_to_tangut
EnglishToTangut(english_text, e_to_t_dict) ==
    IF ~Truthy(e_to_t_dict) THEN Unavailable("english_to_tangut", english_text)
    ELSE
    LET d == e_to_t_dict[1]
        words == Split(Normalize(english_text))
        Known(k) == words[k] \in DOMAIN d /\ d[words[k]] # <<>>
        First(k) == SortedMatches(d[words[k]])[1]
    IN  [direction |-> "english_to_tangut",
         text |-> english_text,
         available |-> TRUE,
         detailed_results |->
             [k \in 1..Len(words) |->
                 IF Known(k)
                 THEN [word |-> words[k], matched |-> TRUE,
                       options |-> SortedMatches(d[words[k]])]
                 ELSE [word |-> words[k], matched |-> FALSE,
                       options |-> <<>>]],
         combined_chars |->
             [k \in 1..Len(words) |->
                 IF Known(k) THEN First(k).char ELSE UNKNOWN],
         combined_phonetics |->
             [k \in 1..Len(words) |->
                 IF Known(k) THEN First(k).phonetics ELSE UNKNOWN_PH],
         combined_meanings |-> {}]

\* translate_tangut_to_chinese
TangutToChinese(tangut_text, t_to_c_dict) ==
    IF ~Truthy(t_to_c_dict) THEN Unavailable("tangut_to_chinese", tangut_text)
    ELSE
    LET d == t_to_c_dict[1]
        spans == Segment(tangut_text, d)
        Known(k) == spans[k] \in DOMAIN d /\ d[spans[k]] # <<>>
    IN  [direction |-> "tangut_to_chinese",
         text |-> tangut_text,
         available |-> TRUE,
         detailed_results |->
             [k \in 1..Len(spans) |->
                 IF Known(k)
                 THEN [span |-> spans[k], matched |-> TRUE,
                       chinese |-> d[spans[k]]]
                 ELSE [span |-> spans[k], matched |-> FALSE,
                       chinese |-> UNKNOWN]],
         combined_chars |->
             [k \in 1..Len(spans) |->
                 IF Known(k) THEN d[spans[k]] ELSE UNKNOWN],
         combined_phonetics |-> <<>>,
         combined_meanings |-> {}]

\* translate_chinese_to_tangut
ChineseToTangut(chinese_text, c_to_t_dict) ==
    IF ~Truthy(c_to_t_dict) THEN Unavailable("chinese_to_tangut", chinese_text)
    ELSE
    LET d == c_to_t_dict[1]
        Known(k) == <<chinese_text[k]>> \in DOMAIN d
                    /\ d[<<chinese_text[k]>>] # <<>>
        Sorted(k) ==
            LET m == d[<<chinese_text[k]>>]
            IN  SortStable(m, {q \in (1..Len(m)) \X (1..Len(m)) :
                                  StrLess(m[q[1]], m[q[2]])})
    IN  [direction |-> "chinese_to_tangut",
         text |-> chinese_text,
         available |-> TRUE,
         detailed_results |->
             [k \in 1..Len(chinese_text) |->
                 IF Known(k)
                 THEN [span |-> <<chinese_text[k]>>, matched |-> TRUE,
                       options |-> Sorted(k)]
                 ELSE [span |-> <<chinese_text[k]>>, matched |-> FALSE,
                       options |-> <<>>]],
         combined_chars |->
             [k \in 1..Len(chinese_text) |->
                 IF Known(k) THEN Sorted(k)[1] ELSE UNKNOWN],
         combined_phonetics |-> <<>>,
         combined_meanings |-> {}]

-----------------------------------------------------------------------------
(* The menu loop of main *)

buildVars == <<li_fanwen_data, li_pos, compound_data, compound_pos, indexVars>>

dictVars == <<tangut_char_data_dict, english_to_tangut_dict,
              tangut_to_chinese_dict, chinese_to_tangut_dict>>

\* choice '1'
MenuTangutToEnglish ==
    /\ pc = "menu"
    /\ \E text \in TangutTexts :
           output' = TangutToEnglish(text, tangut_char_data_dict)
    /\ pc' = "print"
    /\ UNCHANGED <<buildVars, dictVars>>

\* choice '2'
MenuEnglishToTangut ==
    /\ pc = "menu"
    /\ \E text \in EnglishTexts :
           output' = EnglishToTangut(text, english_to_tangut_dict)
    /\ pc' = "print"
    /\ UNCHANGED <<buildVars, dictVars>>

\* choice '3'
MenuTangutToChinese ==
    /\ pc = "menu"
    /\ \E text \in TangutTexts :
           output' = TangutToChinese(text, tangut_to_chinese_dict)
    /\ pc' = "print"
    /\ UNCHANGED <<buildVars, dictVars>>

\* choice '4'
MenuChineseToTangut ==
    /\ pc = "menu"
    /\ \E text \in ChineseTexts :
           output' = ChineseToTangut(text, chinese_to_tangut_dict)
    /\ pc' = "print"
    /\ UNCHANGED <<buildVars, dictVars>>

\* print(translate_...(text_to_translate, ...)): the result is printed and
\* dropped, and the loop asks for the next input
PrintOutput ==
    /\ pc = "print"
    /\ output' = NoOutput
    /\ pc' = "menu"
    /\ UNCHANGED <<buildVars, dictVars>>

Next ==
    \/ LoadLiFanwen
    \/ LiFanwenEntry
    \/ LoadCompound
    \/ CompoundEntry
    \/ Deduplicate
    \/ ReturnIndexes
    \/ MainCheck
    \/ MenuTangutToEnglish
    \/ MenuEnglishToTangut
    \/ MenuTangutToChinese
    \/ MenuChineseToTangut
    \/ PrintOutput

Spec == Init /\ [][Next]_vars

\* load_tangut_data on its own: the build of the four indexes up to the
\* tuple that main receives
LoadNext ==
    \/ LoadLiFanwen
    \/ LiFanwenEntry
    \/ LoadCompound
    \/ CompoundEntry
    \/ Deduplicate
    \/ ReturnIndexes

LoadSpec == Init /\ [][LoadNext]_vars

-----------------------------------------------------------------------------
(* The two loops of load_tangut_data as folds over the source lists *)

Records(data) == IF data = None THEN <<>> ELSE data[1]

\* tangut_char_data after the atomic records l
CharDataOf(l) ==
    LET F[k \in 0..Len(l)] ==
            IF k = 0 THEN EmptyDict
            ELSE IF AtomicFields(l[k]).char = <<>> THEN F[k - 1]
            ELSE CharDataAfterAtomic(F[k - 1], l[k])
    IN  F[Len(l)]

\* english_to_tangut after the atomic records l and the compound records c,
\* before deduplication
EnglishOf(l, c) ==
    LET F[k \in 0..Len(l)] ==
            IF k = 0 THEN EmptyDict
            ELSE IF AtomicFields(l[k]).char = <<>> THEN F[k - 1]
            ELSE EnglishAfterAtomic(F[k - 1], l[k])
        G[k \in 0..Len(c)] ==
            IF k = 0 THEN F[Len(l)]
            ELSE IF CompoundFields(c[k]).proposed_tangut_word_raw = <<>>
            THEN G[k - 1]
            ELSE EnglishAfterCompound(G[k - 1], c[k])
    IN  G[Len(c)]

Reverse(seq) == [k \in 1..Len(seq) |-> seq[Len(seq) + 1 - k]]

\* the atomic records already folded into the indexes
ProcessedAtomic ==
    IF pc = "load_li_fanwen" THEN <<>>
    ELSE SubSeq(Records(li_fanwen_data), 1, li_pos - 1)

\* the compound records already folded into the indexes
ProcessedCompound ==
    SubSeq(Records(compound_data), 1, compound_pos - 1)

AfterCompoundLoop ==
    pc \in {"deduplicate", "return", "main_check", "menu", "print", "exit"}

AfterDeduplicate == pc \in {"return", "main_check", "menu", "print", "exit"}

AfterReturn == pc \in {"main_check", "menu", "print", "exit"}

\* res holds each distinct element of src once, in the order of the first
\* occurrences in src
FirstIndex(seq, x) == SetMin({k \in 1..Len(seq) : seq[k] = x})

IsDedupOf(res, src) ==
    /\ \A j, k \in 1..Len(res) : j # k => res[j] # res[k]
    /\ SeqToSet(res) = SeqToSet(src)
    /\ \A j, k \in 1..Len(res) :
           j < k => FirstIndex(src, res[j]) < FirstIndex(src, res[k])

Segmenting ==
    pc = "print" /\ output.direction \in {"tangut_to_english", "tangut_to_chinese"}

\* the index the printed segmentation was made against
SegmentIndex ==
    IF output.direction = "tangut_to_english"
    THEN tangut_char_data_dict[1] ELSE tangut_to_chinese_dict[1]

\* a key of d of length n starts at position k of text
KeyAt(d, text, k, n) ==
    k + n - 1 <= Len(text) /\ SubSeq(text, k, k + n - 1) \in DOMAIN d

RECURSIVE Concat(_)
Concat(strs) == IF strs = <<>> THEN <<>> ELSE Head(strs) \o Concat(Tail(strs))

Spans == [k \in 1..Len(output.detailed_results) |-> output.detailed_results[k].span]

\* the position of the input at which span k starts
SpanStart(k) == 1 + Len(Concat(SubSeq(Spans, 1, k - 1)))

-----------------------------------------------------------------------------
(* C1 *)

\* C1 as stated: the span emitted at each position is the longest index key
\* that starts at that position, and an input equal to the unit of a compound
\* record (such as "XY (p1)") comes back as the one span of that unit.
C1_LongestMatchPreference ==
    Segmenting /\ output.available =>
        /\ \A k \in 1..Len(Spans) : \A n \in 1..Len(output.text) :
               KeyAt(SegmentIndex, output.text, SpanStart(k), n)
                   => n <= Len(Spans[k])
        /\ \A k \in 1..Len(Records(compound_data)) :
               LET f == CompoundFields(Records(compound_data)[k])
               IN  /\ output.direction = "tangut_to_english"
                   /\ f.proposed_tangut_word_raw # <<>>
                   /\ ParseProposed(f.proposed_tangut_word_raw).char = output.text
                   => Spans = <<output.text>>

\* C1 amended: whenever the index holds keys, the span emitted at each
\* position is the single character at that position, matched exactly when
\* that one character is itself a key; a longer key that starts there is
\* never used, so with keys "XY" and "X" the input "XY" yields two spans.
C1_SingleCharacterSpans ==
    Segmenting /\ DOMAIN SegmentIndex # {} =>
        /\ Len(output.detailed_results) = Len(output.text)
        /\ \A k \in 1..Len(output.text) :
               /\ output.detailed_results[k].span = <<output.text[k]>>
               /\ output.detailed_results[k].matched
                      <=> <<output.text[k]>> \in DOMAIN SegmentIndex

C1_Witness ==
    /\ pc = "print"
    /\ output.direction = "tangut_to_english"
    /\ output.text = <<Chr.X, Chr.Y>>
    /\ {<<Chr.X>>, <<Chr.X, Chr.Y>>} \subseteq DOMAIN tangut_char_data_dict[1]
    /\ Len(output.detailed_results) = 2
    /\ output.detailed_results[1].matched
    /\ ~output.detailed_results[2].matched

-----------------------------------------------------------------------------
(* C2 *)

\* C2 as stated: for any input and any index, the empty one included, the
\* spans of a segmentation are contiguous, do not overlap and concatenate to
\* the input.
C2_Totality ==
    Segmenting =>
        /\ \A k \in 1..Len(Spans) : Spans[k] # <<>>
        /\ Concat(Spans) = output.text

-----------------------------------------------------------------------------
(* C3 *)

\* C3 as stated: a position at which no index key of any length starts yields
\* one unknown span of length 1 with the unknown placeholder, and a word that
\* is no key yields one unknown candidate; the rest of the input is still
\* processed, one result per position or word.
C3_UnknownFallback ==
    /\ pc = "print" /\ output.direction = "tangut_to_english" =>
           /\ Len(output.detailed_results) = Len(output.text)
           /\ \A k \in 1..Len(output.text) :
                  (\A n \in 1..Len(output.text) :
                       ~KeyAt(Records(tangut_char_data_dict), output.text, k, n))
                  => /\ output.detailed_results[k].span = <<output.text[k]>>
                     /\ ~output.detailed_results[k].matched
                     /\ output.combined_phonetics[k] = UNKNOWN
    /\ pc = "print" /\ output.direction = "english_to_tangut" =>
           LET words == Split(Normalize(output.text))
           IN  /\ Len(output.detailed_results) = Len(words)
               /\ \A k \in 1..Len(words) :
                      words[k] \notin DOMAIN Records(english_to_tangut_dict)
                      => /\ output.detailed_results[k].word = words[k]
                         /\ ~output.detailed_results[k].matched
                         /\ output.combined_chars[k] = UNKNOWN
                         /\ output.combined_phonetics[k] = UNKNOWN_PH

-----------------------------------------------------------------------------
(* C4 *)

\* the last compound record that names unit u is record k
LastCompoundFor(k) ==
    LET c == Records(compound_data)
        Unit(j) == ParseProposed(CompoundFields(c[j]).proposed_tangut_word_raw).char
        Kept(j) == CompoundFields(c[j]).proposed_tangut_word_raw # <<>>
    IN  /\ Kept(k)
        /\ Unit(k) \in DOMAIN tangut_char_data
        /\ \A j \in (k + 1)..Len(c) : Kept(j) => Unit(j) # Unit(k)

\* C4 as stated: after an atomic record with key K and then a compound record
\* whose unit is K, SymbolIndex[K] holds the compound's phonetics and no
\* meaning but the compound's.
C4_CompoundReplacesAtomic ==
    AfterCompoundLoop =>
        \A k \in 1..Len(Records(compound_data)) :
            LastCompoundFor(k) =>
                LET f == CompoundFields(Records(compound_data)[k])
                    w == ParseProposed(f.proposed_tangut_word_raw)
                IN  /\ tangut_char_data[w.char].phonetics = w.phonetics
                    /\ \A m \in SeqToSet(tangut_char_data[w.char].meanings) :
                           m = f.literal_tangut_meaning

\* C4 amended: the compound pass leaves the SymbolIndex exactly as the atomic
\* pass built it; after an atomic record with key K and a compound record
\* with unit K, SymbolIndex[K] still holds the atomic phonetics and meanings.
C4_CompoundLeavesSymbolIndex ==
    pc # "load_li_fanwen" =>
        tangut_char_data = CharDataOf(ProcessedAtomic)

C4_Witness ==
    /\ pc = "menu"
    /\ \E k \in 1..Len(Records(compound_data)) :
           /\ LastCompoundFor(k)
           /\ LET f == CompoundFields(Records(compound_data)[k])
                  w == ParseProposed(f.proposed_tangut_word_raw)
              IN  /\ w.phonetics # NA_COMPOUND_PHONETICS
                  /\ tangut_char_data[w.char].phonetics # w.phonetics
                  /\ tangut_char_data[w.char].meanings # <<>>

-----------------------------------------------------------------------------
(* C5 *)

\* records j < k are the only two processed atomic records with their key,
\* the first with blank phonetics and the second with phonetics
UpgradePair(j, k) ==
    LET l == ProcessedAtomic
        key == AtomicFields(l[j]).char
    IN  /\ j < k
        /\ key # <<>>
        /\ {n \in 1..Len(l) : AtomicFields(l[n]).char = key} = {j, k}
        /\ AtomicFields(l[j]).phonetics = <<>>
        /\ AtomicFields(l[k]).phonetics # <<>>

-----------------------------------------------------------------------------
(* C6 *)

\* english_to_tangut as the two loops filled it, before deduplication
RawEnglish == EnglishOf(Records(li_fanwen_data), Records(compound_data))

\* C6: after the build, whatever records were ingested, the candidate list of
\* every WordIndex key holds each (unit, phonetics, originalMeaning) triple
\* once, in the order in which the triples were first inserted.
C6_WordIndexDedup ==
    AfterDeduplicate =>
        LET raw == RawEnglish
        IN  /\ DOMAIN english_to_tangut = DOMAIN raw
            /\ \A key \in DOMAIN english_to_tangut :
                   IsDedupOf(english_to_tangut[key], raw[key])

C6_Witness ==
    /\ pc = "menu"
    /\ Len(Records(compound_data)) > 0
    /\ LET raw == RawEnglish
       IN  \E key \in DOMAIN english_to_tangut :
               /\ Len(english_to_tangut[key]) >= 2
               /\ Len(raw[key]) > Len(english_to_tangut[key])
               /\ english_to_tangut_dict[1][key] = english_to_tangut[key]

-----------------------------------------------------------------------------
(* C7 *)

\* (unit, phonetics) of x comes before that of y
PairBefore(x, y) ==
    \/ StrLess(x.char, y.char)
    \/ x.char = y.char /\ StrLess(x.phonetics, y.phonetics)

\* the WordIndex built from the same records ingested in the opposite order
ReversedEnglish ==
    DedupEnglish(EnglishOf(Reverse(Records(li_fanwen_data)),
                           Reverse(Records(compound_data))))

\* C7: the candidates listed for a word are all the candidates of the word in
\* ascending (unit, phonetics) order, the primary candidate of the combined
\* rendering is the first of them, and it is the same unit and phonetics
\* when the records are ingested in the opposite order; the units listed for
\* a cross-script character are ascending and the primary is the first.
C7_CandidateRanking ==
    /\ pc = "print" /\ output.direction = "english_to_tangut" =>
        LET reversed == ReversedEnglish
        IN  \A k \in 1..Len(output.detailed_results) :
            LET r == output.detailed_results[k]
                n == Len(r.options)
            IN  r.matched =>
                /\ n = Len(english_to_tangut_dict[1][r.word])
                /\ SeqToSet(r.options) = SeqToSet(english_to_tangut_dict[1][r.word])
                /\ \A a, b \in 1..n : a < b => ~PairBefore(r.options[b], r.options[a])
                /\ output.combined_chars[k] = r.options[1].char
                /\ output.combined_phonetics[k] = r.options[1].phonetics
                /\ r.word \in DOMAIN reversed
                /\ \A x \in SeqToSet(reversed[r.word]) :
                       ~PairBefore(x, r.options[1])
                /\ \E x \in SeqToSet(reversed[r.word]) :
                       /\ x.char = r.options[1].char
                       /\ x.phonetics = r.options[1].phonetics
    /\ pc = "print" /\ output.direction = "chinese_to_tangut" =>
        \A k \in 1..Len(output.detailed_results) :
            LET r == output.detailed_results[k]
            IN  r.matched =>
                /\ \A a, b \in 1..Len(r.options) :
                       a < b => ~StrLess(r.options[b], r.options[a])
                /\ SeqToSet(r.options) = SeqToSet(chinese_to_tangut_dict[1][r.span])
                /\ output.combined_chars[k] = r.options[1]

C7_Witness ==
    /\ pc = "print"
    /\ output.direction = "english_to_tangut"
    /\ \E k \in 1..Len(output.detailed_results) :
           LET r == output.detailed_results[k]
           IN  /\ r.matched
               /\ Len(r.options) = 2
               /\ r.options[1].char = r.options[2].char
               /\ r.options[1].phonetics = <<Chr.a>>
               /\ r.options[2].phonetics = <<Chr.b>>
               /\ english_to_tangut_dict[1][r.word][1] = r.options[2]
               /\ output.combined_phonetics[k] = <<Chr.a>>

-----------------------------------------------------------------------------
(* C8 *)

\* C8: when either source fails to load, load_tangut_data returns None for all
\* four indexes, never the indexes built from the other source, and main does
\* not reach the translation loop.
C8_LoadFailureIsFatal ==
    AfterReturn /\ (li_fanwen_data = None \/ compound_data = None) =>
        /\ tangut_char_data_dict = None
        /\ english_to_tangut_dict = None
        /\ tangut_to_chinese_dict = None
        /\ chinese_to_tangut_dict = None
        /\ pc \in {"main_check", "exit"}

C8_Witness ==
    /\ pc = "exit"
    /\ compound_data = None
    /\ li_fanwen_data # None
    /\ DOMAIN tangut_char_data # {}
    /\ DOMAIN english_to_tangut # {}
    /\ tangut_char_data_dict = None

-----------------------------------------------------------------------------
(* C9 *)

\* C9 as stated: normalizing a normalized key gives the key back, both for
\* the keys of the WordIndex and for the normalized lookup input.
C9_NormalizeIdempotent ==
    /\ \A key \in DOMAIN english_to_tangut : Normalize(key) = key
    /\ pc = "print" /\ output.direction = "english_to_tangut" =>
           Normalize(Normalize(output.text)) = Normalize(output.text)

-----------------------------------------------------------------------------
(* C10 *)

\* C10 as stated: in every state of the build and after it, no phonetics
\* stored in a SymbolIndex entry or in a WordIndex candidate is empty.
C10_PhoneticsNeverEmpty ==
    /\ \A char \in DOMAIN tangut_char_data :
           tangut_char_data[char].phonetics # <<>>
    /\ \A key \in DOMAIN english_to_tangut :
           \A k \in 1..Len(english_to_tangut[key]) :
               english_to_tangut[key][k].phonetics # <<>>

-----------------------------------------------------------------------------
(* C11 *)

\* the compound records that the loop did not skip and that have a concept
ConceptRecords ==
    {k \in 1..Len(ProcessedCompound) :
        /\ CompoundFields(ProcessedCompound[k]).proposed_tangut_word_raw # <<>>
        /\ CompoundFields(ProcessedCompound[k]).modern_concept # <<>>}

\* the candidate that compound record k stores
CandidateOf(k) ==
    LET f == CompoundFields(ProcessedCompound[k])
        w == ParseProposed(f.proposed_tangut_word_raw)
    IN  [char |-> w.char, phonetics |-> w.phonetics,
         original_meaning |-> f.literal_tangut_meaning]

\* the text of field that comes before its first parenthesis, or the whole
\* field when it begins with a parenthesis
BeforeParenthesis(field) ==
    LET parens == {k \in 1..Len(field) : field[k] \in {Chr.lpar, Chr.rpar}}
    IN  IF parens = {} THEN field
        ELSE IF 1 \in parens THEN field
        ELSE Strip(SubSeq(field, 1, SetMin(parens) - 1))

\* the keys under which add_to_english_map files a phrase
KeysOfPhrase(phrase) ==
    IF Normalize(phrase) = <<>> THEN {}
    ELSE {Normalize(phrase)} \cup SeqToSet(Split(Normalize(phrase)))

\* the phrases of the processed records other than the compound concepts
OtherPhrases ==
    LET A == ProcessedAtomic
        C == ProcessedCompound
    IN  UNION {
            {p \in {AtomicFields(A[k]).meaning_phrase,
                    AtomicFields(A[k]).keyword_phrase} :
                AtomicFields(A[k]).char # <<>> /\ Usable(p)} :
            k \in 1..Len(A)}
        \cup
        {CompoundFields(C[k]).literal_tangut_meaning :
            k \in {j \in 1..Len(C) :
                     /\ CompoundFields(C[j]).proposed_tangut_word_raw # <<>>
                     /\ Usable(CompoundFields(C[j]).literal_tangut_meaning)}}

\* C11 as stated: for every processed compound record with a modern-concept
\* field, the WordIndex phrase is chosen by the ordered rule (contents of the
\* first parenthesized group; else the whole field when it has no leading
\* cross-script run; else the remainder after the cross-script prefix), so the
\* record's candidate is filed under the normalized form of that phrase.
C11_ParenthesizedGroupFirst ==
    \A k \in ConceptRecords :
        LET p == EnglishPartParenthesizedFirst(
                     CompoundFields(ProcessedCompound[k]).modern_concept)
        IN  Normalize(p) # <<>> =>
                /\ Normalize(p) \in DOMAIN english_to_tangut
                /\ Contains(english_to_tangut[Normalize(p)], CandidateOf(k))

\* C11 amended: the WordIndex phrase of a compound record is the text of the
\* modern-concept field before its first parenthesis (the whole field when it
\* begins with a parenthesis), whatever script it is written in: the record's
\* candidate is filed under every key of that phrase, and the WordIndex has
\* no key that comes from any other part of a modern-concept field.
C11_TextBeforeParenthesis ==
    LET records == ConceptRecords
        part == [k \in records |->
                    BeforeParenthesis(
                        CompoundFields(ProcessedCompound[k]).modern_concept)]
        keys == UNION {KeysOfPhrase(p) :
                          p \in {part[k] : k \in records} \cup OtherPhrases}
    IN  /\ \A k \in records :
               \A key \in KeysOfPhrase(part[k]) :
                   /\ key \in DOMAIN english_to_tangut
                   /\ Contains(english_to_tangut[key], CandidateOf(k))
        /\ DOMAIN english_to_tangut \subseteq keys

\* a processed compound record whose concept has a cross-script prefix and a
\* parenthesized group: its candidate is filed under the prefix and the
\* contents of the group are no key
C11_Witness ==
    /\ pc = "deduplicate"
    /\ \E k \in ConceptRecords :
           LET m == CompoundFields(ProcessedCompound[k]).modern_concept
           IN  /\ IsCrossScript(m[1])
               /\ EnglishPartParenthesizedFirst(m) # BeforeParenthesis(m)
               /\ Normalize(EnglishPartParenthesizedFirst(m))
                      \notin DOMAIN english_to_tangut
               /\ Contains(english_to_tangut[Normalize(BeforeParenthesis(m))],
                           CandidateOf(k))

-----------------------------------------------------------------------------
(* C12 *)

\* the processed compound records that the loop did not skip and whose
\* modern-concept field begins with a cross-script run
CrossScriptRecords ==
    {k \in 1..Len(ProcessedCompound) :
        /\ CompoundFields(ProcessedCompound[k]).proposed_tangut_word_raw # <<>>
        /\ CrossScriptPart(CompoundFields(ProcessedCompound[k]).modern_concept)
               # <<>>}

\* the unit extracted from compound record k
UnitOf(k) ==
    ParseProposed(CompoundFields(ProcessedCompound[k]).proposed_tangut_word_raw).char

\* the processed atomic records that have a key and a cross-script equivalent
ChineseRecords ==
    {k \in 1..Len(ProcessedAtomic) :
        /\ AtomicFields(ProcessedAtomic[k]).char # <<>>
        /\ AtomicFields(ProcessedAtomic[k]).chinese_char # <<>>}

\* C12 as stated: after the build, a compound record with cross-script part c
\* and extracted unit u has put u in the reverse CrossScriptIndex list of c,
\* and the forward CrossScriptIndex maps u to the cross-script part of the
\* last such record for u.
C12_CompoundFillsCrossScriptIndex ==
    AfterCompoundLoop =>
        \A k \in CrossScriptRecords :
            LET c == CrossScriptPart(
                         CompoundFields(ProcessedCompound[k]).modern_concept)
                u == UnitOf(k)
            IN  /\ c \in DOMAIN chinese_to_tangut
                /\ Contains(chinese_to_tangut[c], u)
                /\ u \in DOMAIN tangut_to_chinese
                /\ (\A j \in CrossScriptRecords : UnitOf(j) = u => j <= k)
                       => tangut_to_chinese[u] = c

\* C12 amended: compound records never contribute to the CrossScriptIndex.
\* In every state of the build the forward map holds exactly the keys of the
\* processed atomic records that have an equivalent, each with the equivalent
\* of the last such record, and the reverse list of an equivalent holds
\* exactly the keys of the processed atomic records that name it.
C12_CompoundLeavesCrossScriptIndex ==
    LET A == ProcessedAtomic
        records == ChineseRecords
        char == [k \in records |-> AtomicFields(A[k]).char]
        chinese == [k \in records |-> AtomicFields(A[k]).chinese_char]
    IN  /\ DOMAIN tangut_to_chinese = {char[k] : k \in records}
        /\ \A k \in records :
               (\A j \in records : char[j] = char[k] => j <= k)
                   => tangut_to_chinese[char[k]] = chinese[k]
        /\ DOMAIN chinese_to_tangut = {chinese[k] : k \in records}
        /\ \A c \in DOMAIN chinese_to_tangut :
               SeqToSet(chinese_to_tangut[c]) =
                   {char[k] : k \in {j \in records : chinese[j] = c}}

\* the build has processed a compound record with a cross-script part and a
\* unit that no atomic record gave an equivalent, and neither map has them
C12_Witness ==
    /\ pc = "return"
    /\ \E k \in CrossScriptRecords :
           /\ UnitOf(k) \notin DOMAIN tangut_to_chinese
           /\ \A c \in DOMAIN chinese_to_tangut :
                  ~Contains(chinese_to_tangut[c], UnitOf(k))
    /\ DOMAIN tangut_to_chinese # {}

-----------------------------------------------------------------------------
(* C13 *)

IsPrefix(s, t) == Len(s) <= Len(t) /\ SubSeq(t, 1, Len(s)) = s

\* C13: no step removes a SymbolIndex entry, changes the phonetics of an entry
\* that holds a value other than the missing-phonetics sentinel, or removes or
\* reorders a meaning: the meanings of an entry before the step are a prefix
\* of its meanings after it.
C13_PhoneticsStable ==
    [][\A char \in DOMAIN tangut_char_data :
           /\ char \in DOMAIN tangut_char_data'
           /\ tangut_char_data[char].phonetics # MISSING_PHONETICS =>
                  tangut_char_data'[char].phonetics =
                      tangut_char_data[char].phonetics
           /\ IsPrefix(tangut_char_data[char].meanings,
                       tangut_char_data'[char].meanings)]_vars

\* two processed atomic records with the same key and different real
\* phonetics, the first of them the first record of the key: the entry holds
\* the phonetics of the first and has meanings of both
C13_Witness ==
    \E j, k \in 1..Len(ProcessedAtomic) :
        LET fj == AtomicFields(ProcessedAtomic[j])
            fk == AtomicFields(ProcessedAtomic[k])
        IN  /\ j < k
            /\ fj.char # <<>>
            /\ fk.char = fj.char
            /\ \A n \in 1..(j - 1) :
                   AtomicFields(ProcessedAtomic[n]).char # fj.char
            /\ fj.phonetics # <<>>
            /\ fk.phonetics # <<>>
            /\ fk.phonetics # fj.phonetics
            /\ tangut_char_data[fj.char].phonetics = fj.phonetics
            /\ Usable(fj.meaning_phrase)
            /\ Usable(fk.meaning_phrase)
            /\ fk.meaning_phrase # fj.meaning_phrase
            /\ tangut_char_data[fj.char].meanings =
                   <<fj.meaning_phrase, fk.meaning_phrase>>

-----------------------------------------------------------------------------
(* C14 *)

\* the candidates that the processed atomic records file in the WordIndex
AtomicCandidates ==
    LET A == ProcessedAtomic
        Made(f) ==
            {[char |-> f.char, phonetics |-> PhoneticsToStore(f.phonetics),
              original_meaning |-> f.meaning_phrase] :
                x \in {y \in {1} : Usable(f.meaning_phrase)}}
            \cup
            {[char |-> f.char, phonetics |-> PhoneticsToStore(f.phonetics),
              original_meaning |-> IF f.meaning_phrase # <<>>
                                   THEN f.meaning_phrase
                                   ELSE f.keyword_phrase] :
                x \in {y \in {1} : Usable(f.keyword_phrase)}}
    IN  UNION {Made(AtomicFields(A[k])) :
                  k \in {j \in 1..Len(A) : AtomicFields(A[j]).char # <<>>}}

\* C14 as stated: after the build every WordIndex candidate that an atomic
\* record produced for a unit carries the phonetics of the final SymbolIndex
\* entry of that unit, and so does the primary candidate of every matched
\* word of an English lookup.
C14_CandidatePhoneticsConsistent ==
    LET made == AtomicCandidates
    IN  /\ AfterDeduplicate =>
               \A key \in DOMAIN english_to_tangut :
                   \A k \in 1..Len(english_to_tangut[key]) :
                       LET cand == english_to_tangut[key][k]
                       IN  cand \in made =>
                               cand.phonetics =
                                   tangut_char_data[cand.char].phonetics
        /\ (pc = "print" /\ output.direction = "english_to_tangut"
                /\ output.available) =>
               \A k \in 1..Len(output.detailed_results) :
                   LET r == output.detailed_results[k]
                   IN  (r.matched /\ r.options[1] \in made) =>
                           r.options[1].phonetics =
                               tangut_char_data_dict[1][r.options[1].char].phonetics

====
